---- MODULE Spec2Model ----
(***************************************************************************)
(* A model of src/pca_yieldcurve.py: the CSV loader load_jgb_csv, the      *)
(* reducer compute_pca, the reporter plot_pcs and the command-line driver  *)
(* main.                                                                   *)
(*                                                                         *)
(* A text cell is a tuple of characters (one-character strings; a          *)
(* character outside ASCII is written as its code point), so that the      *)
(* numeric conversion is computed from the characters.  A DataFrame is a   *)
(* record of its index, its column labels and its rows.  The scores and    *)
(* variance ratios that scikit-learn computes are kept symbolic: the model *)
(* tracks their shape, labels, order and index, not their values.          *)
(***************************************************************************)
EXTENDS Integers, Sequences, FiniteSets, TLC

VARIABLES
    file_exists,   \* csv_path.exists()
    file,          \* the CSV text: [placeholder: labels, body: rows of cells]
    n_components,  \* args.n_components, or the k handed to compute_pca
    save,          \* whether args.save is given
    matrix,        \* the DataFrame handed to compute_pca (None before load)
    pc,            \* the position of the running function
    load_result,   \* what load_jgb_csv returned or raised (None before)
    pca_result,    \* what compute_pca returned or raised (None before)
    stages,        \* the stages main has started, in order
    stdout,        \* the lines printed to standard output, in order
    stderr,        \* the diagnostics printed to standard error, in order
    plotted,       \* whether plot_pcs has drawn the chart
    exit_code      \* the process exit code (None while running)

vars == <<file_exists, file, n_components, save, matrix, pc, load_result,
          pca_result, stages, stdout, stderr, plotted, exit_code>>

None == [t |-> "None"]

----------------------------------------------------------------------------
(* Sequences. *)

Range(s) == {s[i] : i \in 1..Len(s)}

RECURSIVE SelectIdx(_, _, _)
\* The indices i of 1..n, ascending, for which keep[i] holds.
SelectIdx(keep, i, n) ==
    IF i > n THEN <<>>
    ELSE (IF keep[i] THEN <<i>> ELSE <<>>) \o SelectIdx(keep, i + 1, n)

RemoveAt(s, j) == SubSeq(s, 1, j - 1) \o SubSeq(s, j + 1, Len(s))

\* The first position of s holding a character of cs, 0 when there is none.
FirstOf(s, cs) ==
    IF \E i \in 1..Len(s) : s[i] \in cs
    THEN CHOOSE i \in 1..Len(s) : s[i] \in cs /\ \A h \in 1..(i - 1) : s[h] \notin cs
    ELSE 0

----------------------------------------------------------------------------
(* Values of a DataFrame cell. *)

Str(s)   == [t |-> "str", s |-> s]
NaN      == [t |-> "nan"]          \* numpy.nan, what read_csv stores for a missing field
NA       == [t |-> "NA"]           \* pandas.NA
Finite(neg, mant, exp) ==
    [t |-> "float", cls |-> "finite", neg |-> neg, mant |-> mant, exp |-> exp]
Inf(neg) == [t |-> "float", cls |-> "inf", neg |-> neg, mant |-> 0, exp |-> 0]
FNan     == [t |-> "float", cls |-> "nan", neg |-> FALSE, mant |-> 0, exp |-> 0]
Unparsable == [t |-> "unparsable"]

IsMissing(v) == v.t \in {"nan", "NA"}

\* The label "基準日": its three characters, each written as its code point.
KIJUNBI == <<"U+57FA", "U+6E96", "U+65E5">>
DATE    == <<"d", "a", "t", "e">>
DASH    == <<"-">>

----------------------------------------------------------------------------
(* float(str), which numpy applies to each string of an object array. *)

Digits == {"0", "1", "2", "3", "4", "5", "6", "7", "8", "9"}

DigitVal(c) ==
    CASE c = "0" -> 0 [] c = "1" -> 1 [] c = "2" -> 2 [] c = "3" -> 3
      [] c = "4" -> 4 [] c = "5" -> 5 [] c = "6" -> 6 [] c = "7" -> 7
      [] c = "8" -> 8 [] c = "9" -> 9

Lower(c) ==
    CASE c = "I" -> "i" [] c = "N" -> "n" [] c = "F" -> "f" [] c = "A" -> "a"
      [] c = "T" -> "t" [] c = "Y" -> "y" [] c = "E" -> "e" [] OTHER -> c

LowerAll(s) == [i \in 1..Len(s) |-> Lower(s[i])]

Whitespace == {" ", "\t"}

RECURSIVE LStrip(_)
LStrip(s) == IF s # <<>> /\ Head(s) \in Whitespace THEN LStrip(Tail(s)) ELSE s

RECURSIVE RStrip(_)
RStrip(s) ==
    IF s # <<>> /\ s[Len(s)] \in Whitespace THEN RStrip(SubSeq(s, 1, Len(s) - 1)) ELSE s

RECURSIVE DigitsVal(_)
\* The integer a run of decimal digits denotes (0 for the empty run).
DigitsVal(s) ==
    IF s = <<>> THEN 0 ELSE 10 * DigitsVal(SubSeq(s, 1, Len(s) - 1)) + DigitVal(s[Len(s)])

AllDigits(s) == \A i \in 1..Len(s) : s[i] \in Digits

\* An exponent part (what follows the e): an optional sign and at least one digit.
ExpOk(x) ==
    LET d == IF x # <<>> /\ Head(x) \in {"+", "-"} THEN Tail(x) ELSE x
    IN  d # <<>> /\ AllDigits(d)

ExpVal(x) ==
    IF Head(x) = "-" THEN 0 - DigitsVal(Tail(x))
    ELSE IF Head(x) = "+" THEN DigitsVal(Tail(x)) ELSE DigitsVal(x)

\* A decimal mantissa: digits with at most one point and at least one digit.
MantOk(m) ==
    LET p  == FirstOf(m, {"."})
        ip == IF p = 0 THEN m ELSE SubSeq(m, 1, p - 1)
        fp == IF p = 0 THEN <<>> ELSE SubSeq(m, p + 1, Len(m))
    IN  AllDigits(ip) /\ AllDigits(fp) /\ ip \o fp # <<>>

ParseUnsigned(neg, r) ==
    LET low == LowerAll(r)
        e   == FirstOf(low, {"e"})
        m   == IF e = 0 THEN r ELSE SubSeq(r, 1, e - 1)
        x   == IF e = 0 THEN <<>> ELSE SubSeq(r, e + 1, Len(r))
        p   == FirstOf(m, {"."})
        ip  == IF p = 0 THEN m ELSE SubSeq(m, 1, p - 1)
        fp  == IF p = 0 THEN <<>> ELSE SubSeq(m, p + 1, Len(m))
    IN  IF low \in {<<"i", "n", "f">>, <<"i", "n", "f", "i", "n", "i", "t", "y">>}
        THEN Inf(neg)
        ELSE IF low = <<"n", "a", "n">> THEN FNan
        ELSE IF MantOk(m) /\ (e = 0 \/ ExpOk(x))
        THEN Finite(neg, DigitsVal(ip \o fp),
                    (IF e = 0 THEN 0 ELSE ExpVal(x)) - Len(fp))
        ELSE Unparsable

\* float(s): surrounding whitespace is ignored, then an optional sign, then
\* inf, infinity or nan in any case, or a decimal number with an optional
\* exponent.  Anything else raises ValueError (Unparsable here).
ParseFloat(s) ==
    LET t == RStrip(LStrip(s))
    IN  IF t = <<>> THEN Unparsable
        ELSE IF Head(t) = "-" THEN ParseUnsigned(TRUE, Tail(t))
        ELSE IF Head(t) = "+" THEN ParseUnsigned(FALSE, Tail(t))
        ELSE ParseUnsigned(FALSE, t)

----------------------------------------------------------------------------
(* Function results: a returned value, or a raised exception with the      *)
(* Python class it is an instance of and the source line that raises it.   *)

Return(v)         == [ok |-> TRUE, value |-> v]
Raise(kind, line) == [ok |-> FALSE, kind |-> kind, line |-> line]

\* The exceptions the program raises.
TooFewRows    == Raise("ValueError", 36)   \* raise ValueError(...), line 36
NoDateColumn  == Raise("KeyError", 45)     \* raise KeyError(...), line 45
AmbiguousDate == Raise("ValueError", 47)   \* set_index on a repeated label
NotNumeric    == Raise("ValueError", 53)   \* astype("Float64") on a bad string
EmptyResult   == Raise("ValueError", 56)   \* raise ValueError(...), line 56
FitRejected   == Raise("ValueError", 66)   \* PCA.fit_transform refuses its input

----------------------------------------------------------------------------
(* load_jgb_csv *)

\* The field texts pandas.read_csv reads as missing by default
\* (keep_default_na=True, which dtype=str does not switch off).
STR_NA_VALUES ==
    { <<>>,
      <<"#", "N", "/", "A">>,
      <<"#", "N", "/", "A", " ", "N", "/", "A">>,
      <<"#", "N", "A">>,
      <<"-", "1", ".", "#", "I", "N", "D">>,
      <<"-", "1", ".", "#", "Q", "N", "A", "N">>,
      <<"-", "N", "a", "N">>,
      <<"-", "n", "a", "n">>,
      <<"1", ".", "#", "I", "N", "D">>,
      <<"1", ".", "#", "Q", "N", "A", "N">>,
      <<"<", "N", "A", ">">>,
      <<"N", "/", "A">>,
      <<"N", "A">>,
      <<"N", "U", "L", "L">>,
      <<"N", "a", "N">>,
      <<"N", "o", "n", "e">>,
      <<"n", "/", "a">>,
      <<"n", "a", "n">>,
      <<"n", "u", "l", "l">> }

\* pd.read_csv(path, encoding=encoding, dtype=str): the first line names the
\* columns, every later line is a row of strings, a missing field is NaN.
read_csv(f) ==
    [columns |-> f.placeholder,
     rows    |-> [i \in 1..Len(f.body) |->
                    [j \in 1..Len(f.body[i]) |->
                        IF f.body[i][j] \in STR_NA_VALUES THEN NaN
                        ELSE Str(f.body[i][j])]],
     pos     |-> [i \in 1..Len(f.body) |-> i]]

\* A variant that forgets data.columns = header: the placeholder names stay.
promote_header_keeps_names(df) ==
    [columns |-> [j \in 1..Len(df.columns) |-> Str(df.columns[j])],
     rows    |-> Tail(df.rows),
     pos     |-> Tail(df.pos)]

\* header = df.iloc[0]; data = df.iloc[1:].copy(); data.columns = header
\* (pos is the position each row had in df: bookkeeping, not program state).
promote_header(df) ==
    [columns |-> df.rows[1],
     rows    |-> Tail(df.rows),
     pos     |-> Tail(df.pos)]

\* data.rename(columns={"基準日": "date"}) when "基準日" is a column label.
rename_date(data) ==
    IF Str(KIJUNBI) \in Range(data.columns)
    THEN [data EXCEPT !.columns =
            [j \in 1..Len(data.columns) |->
                IF data.columns[j] = Str(KIJUNBI) THEN Str(DATE)
                ELSE data.columns[j]]]
    ELSE data

DateCols(data) == {j \in 1..Len(data.columns) : data.columns[j] = Str(DATE)}

\* A variant that takes the first column for the date column.
set_index_first(data) ==
    [index   |-> [i \in 1..Len(data.rows) |-> data.rows[i][1]],
     columns |-> RemoveAt(data.columns, 1),
     rows    |-> [i \in 1..Len(data.rows) |-> RemoveAt(data.rows[i], 1)],
     pos     |-> data.pos]

\* data.set_index("date", inplace=True): the date column becomes the index
\* and leaves the columns.  Called with exactly one column labelled date.
set_index(data) ==
    LET j == CHOOSE c \in DateCols(data) : TRUE
    IN  [index   |-> [i \in 1..Len(data.rows) |-> data.rows[i][j]],
         columns |-> RemoveAt(data.columns, j),
         rows    |-> [i \in 1..Len(data.rows) |-> RemoveAt(data.rows[i], j)],
         pos     |-> data.pos]

\* data.replace("-", pd.NA): a cell equal to the string "-" becomes NA; the
\* index is not touched.
replace_dash(data) ==
    [data EXCEPT !.rows =
        [i \in 1..Len(data.rows) |->
            [j \in 1..Len(data.rows[i]) |->
                IF data.rows[i][j] = Str(DASH) THEN NA ELSE data.rows[i][j]]]]

\* A variant that coerces a string that does not parse to NA instead of raising.
to_Float64_coerce(v) ==
    IF IsMissing(v) \/ ParseFloat(v.s) = Unparsable THEN NA ELSE ParseFloat(v.s)

\* One cell of astype("Float64"): a missing cell is masked (NA), a string is
\* parsed as float() parses it.
to_Float64(v) == IF IsMissing(v) THEN NA ELSE ParseFloat(v.s)

\* data.astype("Float64") raises ValueError when a string does not parse.
astype_raises(data) ==
    \E i \in 1..Len(data.rows) : \E j \in 1..Len(data.rows[i]) :
        to_Float64(data.rows[i][j]) = Unparsable

astype_Float64(data) ==
    [data EXCEPT !.rows =
        [i \in 1..Len(data.rows) |->
            [j \in 1..Len(data.rows[i]) |-> to_Float64(data.rows[i][j])]]]

\* A variant: dropna(how="all"), which drops a row only when every cell is masked.
drops_row_all(row) == \A j \in 1..Len(row) : row[j] = NA

\* Whether dropna(how="any") drops a row: it has a masked cell.
drops_row(row) == \E j \in 1..Len(row) : row[j] = NA

\* .dropna(how="any"): the rows without a masked cell, in their order.
dropna(data) ==
    LET keep == [i \in 1..Len(data.rows) |-> ~drops_row(data.rows[i])]
        sel  == SelectIdx(keep, 1, Len(data.rows))
    IN  [index   |-> [h \in 1..Len(sel) |-> data.index[sel[h]]],
         columns |-> data.columns,
         rows    |-> [h \in 1..Len(sel) |-> data.rows[sel[h]]],
         pos     |-> [h \in 1..Len(sel) |-> data.pos[sel[h]]]]

\* A variant without the num_df.empty check of lines 55-56.
clean_returns_empty(data) ==
    IF astype_raises(data) THEN NotNumeric
    ELSE Return(dropna(astype_Float64(data)))

\* Lines 53-58: convert, drop the rows with a missing value, refuse an empty
\* frame, return the rest.
clean(data) ==
    IF astype_raises(data) THEN NotNumeric
    ELSE LET num_df == dropna(astype_Float64(data))
         IN  IF Len(num_df.rows) = 0 THEN EmptyResult
             ELSE Return(num_df)

\* Lines 37-47: promote the header, find the date column, index by it.
\* set_index on a label that two columns carry raises ValueError.
index_by_date(df) ==
    LET data == rename_date(promote_header(df))
    IN  IF DateCols(data) = {} THEN NoDateColumn
        ELSE IF Cardinality(DateCols(data)) > 1 THEN AmbiguousDate
        ELSE Return(set_index(data))

load_jgb_csv(f) ==
    LET df == read_csv(f)
    IN  IF Len(df.rows) < 2 THEN TooFewRows
        ELSE LET indexed == index_by_date(df)
             IN  IF ~indexed.ok THEN indexed
                 ELSE clean(replace_dash(indexed.value))

----------------------------------------------------------------------------
(* compute_pca *)

AllFinite(df) ==
    \A i \in 1..Len(df.rows) : \A j \in 1..Len(df.rows[i]) :
        df.rows[i][j].t = "float" /\ df.rows[i][j].cls = "finite"

Min(a, b) == IF a <= b THEN a ELSE b

\* PCA(n_components=k).fit_transform(X) on a small X (the full solver)
\* raises ValueError for a negative k, for an X holding inf or NaN, and for
\* k > min(n_samples, n_features).  It accepts k = 0.
fit_raises(df, k) ==
    \/ k < 0
    \/ ~AllFinite(df)
    \/ k > Min(Len(df.rows), Len(df.columns))

\* A variant without the n_components == 3 branch.
component_names_sequential(k) == [i \in 1..k |-> "PC" \o ToString(i)]

\* Lines 69-72: the component names.
component_names(k) ==
    IF k = 3 THEN <<"Level", "Slope", "Curvature">>
    ELSE [i \in 1..k |-> "PC" \o ToString(i)]

\* pca.fit_transform(df.to_numpy()): one score per row and component.
fit_transform(df, k) ==
    [i \in 1..Len(df.rows) |-> [c \in 1..k |-> [t |-> "score", row |-> i, comp |-> c]]]

\* pca.explained_variance_ratio_: one ratio per component, in component order.
explained_variance_ratio(k) == [c \in 1..k |-> [t |-> "ratio", comp |-> c]]

\* pd.DataFrame(components, columns=columns, index=df.index)
score_frame(df, k) ==
    [index   |-> df.index,
     columns |-> component_names(k),
     rows    |-> fit_transform(df, k)]

compute_pca(df, k) ==
    IF fit_raises(df, k) THEN FitRejected
    ELSE Return([pc_df |-> score_frame(df, k),
                 pca   |-> [n_components |-> k,
                            explained_variance_ratio_ |-> explained_variance_ratio(k)]])

----------------------------------------------------------------------------
(* plot_pcs *)

\* pc_df.plot(...) raises TypeError ("no numeric data to plot") on a frame
\* without columns.
plot_raises(pc_df) == Len(pc_df.columns) = 0

----------------------------------------------------------------------------
(* Inputs. *)

MaxDataRows == 2   \* data rows of a generated CSV file
MaxMatRows  == 3   \* rows of a matrix handed to compute_pca directly
MaxMatCols  == 3   \* columns of such a matrix
MaxK        == 4   \* the largest n_components tried

KRange == (0 - 1)..MaxK

C_1   == <<"1">>
C_2   == <<"2">>
C_01  == <<"0", ".", "1">>
C_02  == <<"0", ".", "2">>
C_NA  == <<"N", "A">>
C_abc == <<"a", "b", "c">>
C_inf == <<"i", "n", "f">>
L_1Y  == <<"1", "Y">>
L_2Y  == <<"2", "Y">>
L_X   == <<"X">>
P_ABC == << <<"A">>, <<"B">>, <<"C">> >>

RECURSIVE RowSet(_, _)
\* The rows of n cells, the cell of column j drawn from pools[j].
RowSet(n, pools) ==
    IF n = 0 THEN {<<>>}
    ELSE {Append(r, c) : r \in RowSet(n - 1, pools), c \in pools[n]}

\* f is a file with a placeholder line and a promoted header from shapes
\* (pairs <<placeholder, header>>) and at most maxRows data rows, or a file
\* with the placeholder line alone.
IsFile(f, shapes, pools, maxRows) ==
    \E sh \in shapes :
        \/ f = [placeholder |-> sh[1], body |-> <<>>]
        \/ \E n \in 0..maxRows : \E rows \in [1..n -> RowSet(Len(sh[2]), pools)] :
              f = [placeholder |-> sh[1], body |-> <<sh[2]>> \o rows]

LoadShapes ==
    { <<P_ABC, <<KIJUNBI, L_1Y, L_2Y>> >>,
      <<P_ABC, <<DATE, L_1Y, L_2Y>> >>,
      <<P_ABC, <<L_X, L_1Y, L_2Y>> >>,
      <<P_ABC, <<L_1Y, KIJUNBI, L_2Y>> >>,
      <<P_ABC, <<KIJUNBI, DATE, L_1Y>> >>,
      << <<DATE, <<"B">>, <<"C">> >>, <<L_X, L_1Y, L_2Y>> >>,
      << <<KIJUNBI, <<"B">> >>, <<L_X, L_1Y>> >>,
      << <<<<"A">>, <<"B">> >>, <<KIJUNBI, L_1Y>> >> }

LoadPools == << {C_1, C_2, DASH}, {C_01, DASH, <<>>, C_NA, C_abc, C_inf}, {C_02, DASH} >>

MainShapes ==
    { <<P_ABC, <<KIJUNBI, L_1Y, L_2Y>> >>,
      <<P_ABC, <<L_X, L_1Y, L_2Y>> >> }

MainPools == << {C_1, C_2}, {C_01, DASH, C_abc, C_inf}, {C_02} >>

NoFile == [placeholder |-> <<>>, body |-> <<>>]

\* The frames handed to compute_pca directly: n rows keyed by dates, m
\* columns, every cell finite except at most one.
Matrices ==
    UNION { { [index   |-> [i \in 1..n |-> Str(idx[i])],
               columns |-> [j \in 1..m |-> Str(<<ToString(j), "Y">>)],
               rows    |-> [i \in 1..n |-> [j \in 1..m |->
                              IF bad = <<i, j>> THEN Inf(FALSE) ELSE Finite(FALSE, i + j, 0)]]] :
                idx \in [1..n -> {C_1, C_2}],
                bad \in ((1..n) \X (1..m)) \cup {<<0, 0>>} } :
            n \in 1..MaxMatRows, m \in 1..MaxMatCols }

----------------------------------------------------------------------------
(* main *)

InitCommon ==
    /\ load_result = None
    /\ pca_result = None
    /\ stages = <<>>
    /\ stdout = <<>>
    /\ stderr = <<>>
    /\ plotted = FALSE
    /\ exit_code = None

\* After parse_args: the arguments are any of the inputs above.
Init ==
    /\ pc = "main"
    /\ \/ file_exists = TRUE /\ IsFile(file, MainShapes, MainPools, MaxDataRows)
       \/ file_exists = FALSE /\ file = NoFile
    /\ n_components \in KRange
    /\ save \in BOOLEAN
    /\ matrix = None
    /\ InitCommon

\* sys.exit(code), or the interpreter ending after main returns or raises.
Exited(code) == [t |-> "exited", code |-> code]

Exit(code) == exit_code' = Exited(code) /\ pc' = "exited"

\* A variant that reports the missing file and goes on (no sys.exit(1)).
FileMissing_continues ==
    /\ pc = "main"
    /\ ~file_exists
    /\ stages' = Append(stages, "file-check")
    /\ stderr' = Append(stderr, "file not found")
    /\ pc' = "load"
    /\ UNCHANGED <<file_exists, file, n_components, save, matrix, load_result,
                   pca_result, stdout, plotted, exit_code>>

\* Lines 105-107: a missing file ends the run.
FileMissing ==
    /\ pc = "main"
    /\ ~file_exists
    /\ stages' = Append(stages, "file-check")
    /\ stderr' = Append(stderr, "file not found")
    /\ Exit(1)
    /\ UNCHANGED <<file_exists, file, n_components, save, matrix, load_result,
                   pca_result, stdout, plotted>>

FileFound ==
    /\ pc = "main"
    /\ file_exists
    /\ stages' = Append(stages, "file-check")
    /\ pc' = "load"
    /\ UNCHANGED <<file_exists, file, n_components, save, matrix, load_result,
                   pca_result, stdout, stderr, plotted, exit_code>>

\* Lines 109-113.
MainLoadFails ==
    /\ pc = "load"
    /\ ~load_jgb_csv(file).ok
    /\ stages' = Append(stages, "load")
    /\ load_result' = load_jgb_csv(file)
    /\ stderr' = Append(stderr, "load error")
    /\ Exit(1)
    /\ UNCHANGED <<file_exists, file, n_components, save, matrix, pca_result,
                   stdout, plotted>>

MainLoadReturns ==
    /\ pc = "load"
    /\ load_jgb_csv(file).ok
    /\ stages' = Append(stages, "load")
    /\ load_result' = load_jgb_csv(file)
    /\ matrix' = load_jgb_csv(file).value
    /\ pc' = "pca"
    /\ UNCHANGED <<file_exists, file, n_components, save, pca_result, stdout,
                   stderr, plotted, exit_code>>

\* Lines 115-119.
MainPcaFails ==
    /\ pc = "pca"
    /\ ~compute_pca(matrix, n_components).ok
    /\ stages' = Append(stages, "decompose")
    /\ pca_result' = compute_pca(matrix, n_components)
    /\ stderr' = Append(stderr, "pca error")
    /\ Exit(1)
    /\ UNCHANGED <<file_exists, file, n_components, save, matrix, load_result,
                   stdout, plotted>>

MainPcaReturns ==
    /\ pc = "pca"
    /\ compute_pca(matrix, n_components).ok
    /\ stages' = Append(stages, "decompose")
    /\ pca_result' = compute_pca(matrix, n_components)
    /\ pc' = "report"
    /\ UNCHANGED <<file_exists, file, n_components, save, matrix, load_result,
                   stdout, stderr, plotted, exit_code>>

var_ratio == pca_result.value.pca.explained_variance_ratio_

\* Lines 123-124: one line per component, in the order of var_ratio.
PrintRatio ==
    /\ pc = "report"
    /\ Len(stdout) < Len(var_ratio)
    /\ stages' = IF stdout = <<>> THEN Append(stages, "report") ELSE stages
    /\ stdout' = Append(stdout, [line |-> "ratio", i |-> Len(stdout) + 1,
                                 vr |-> var_ratio[Len(stdout) + 1]])
    /\ UNCHANGED <<file_exists, file, n_components, save, matrix, pc, load_result,
                   pca_result, stderr, plotted, exit_code>>

\* Line 125.
PrintTotal ==
    /\ pc = "report"
    /\ Len(stdout) = Len(var_ratio)
    /\ stages' = IF stdout = <<>> THEN Append(stages, "report") ELSE stages
    /\ stdout' = Append(stdout, [line |-> "total", i |-> Len(var_ratio), vr |-> var_ratio])
    /\ pc' = "plot"
    /\ UNCHANGED <<file_exists, file, n_components, save, matrix, load_result,
                   pca_result, stderr, plotted, exit_code>>

\* Lines 127-128 and plot_pcs: the chart is drawn, then saved (and the save
\* reported) or shown; main returns and the process ends with code 0.
PlotDone ==
    /\ pc = "plot"
    /\ ~plot_raises(pca_result.value.pc_df)
    /\ plotted' = TRUE
    /\ stdout' = IF save THEN Append(stdout, [line |-> "saved", i |-> 0, vr |-> <<>>])
                 ELSE stdout
    /\ Exit(0)
    /\ UNCHANGED <<file_exists, file, n_components, save, matrix, load_result,
                   pca_result, stages, stderr>>

\* plot_pcs raises: nothing catches it, the interpreter prints the traceback
\* and ends with code 1.
PlotRaises ==
    /\ pc = "plot"
    /\ plot_raises(pca_result.value.pc_df)
    /\ stderr' = Append(stderr, "traceback")
    /\ Exit(1)
    /\ UNCHANGED <<file_exists, file, n_components, save, matrix, load_result,
                   pca_result, stages, stdout, plotted>>

Next ==
    \/ FileMissing
    \/ FileFound
    \/ MainLoadFails
    \/ MainLoadReturns
    \/ MainPcaFails
    \/ MainPcaReturns
    \/ PrintRatio
    \/ PrintTotal
    \/ PlotDone
    \/ PlotRaises

Spec == Init /\ [][Next]_vars

----------------------------------------------------------------------------
(* load_jgb_csv called on its own. *)

InitLoad ==
    /\ pc = "call_load"
    /\ file_exists = TRUE
    /\ IsFile(file, LoadShapes, LoadPools, MaxDataRows)
    /\ n_components = 3
    /\ save = FALSE
    /\ matrix = None
    /\ InitCommon

CallLoad ==
    /\ pc = "call_load"
    /\ load_result' = load_jgb_csv(file)
    /\ pc' = "returned"
    /\ UNCHANGED <<file_exists, file, n_components, save, matrix, pca_result,
                   stages, stdout, stderr, plotted, exit_code>>

NextLoad == CallLoad

SpecLoad == InitLoad /\ [][NextLoad]_vars

----------------------------------------------------------------------------
(* compute_pca called on its own. *)

InitPca ==
    /\ pc = "call_pca"
    /\ file_exists = FALSE
    /\ file = NoFile
    /\ n_components \in KRange
    /\ save = FALSE
    /\ matrix \in Matrices
    /\ InitCommon

CallPca ==
    /\ pc = "call_pca"
    /\ pca_result' = compute_pca(matrix, n_components)
    /\ pc' = "returned"
    /\ UNCHANGED <<file_exists, file, n_components, save, matrix, load_result,
                   stages, stdout, stderr, plotted, exit_code>>

NextPca == CallPca

SpecPca == InitPca /\ [][NextPca]_vars

----------------------------------------------------------------------------
(* The claims.  They read the CSV text itself, not the loader's frames. *)

Returned == pc = "returned"

Header(f)   == f.body[1]
DataRows(f) == 2..Len(f.body)

\* The columns whose promoted label is the reference date.
RawDateCols(f) == {j \in 1..Len(Header(f)) : Header(f)[j] \in {KIJUNBI, DATE}}
TenorCols(f)   == (1..Len(Header(f))) \ RawDateCols(f)

\* A file with a promoted header naming exactly one date column, and data rows.
HasOneDateCol(f) == Len(f.body) >= 1 /\ Cardinality(RawDateCols(f)) = 1
DateCol(f)       == CHOOSE j \in RawDateCols(f) : TRUE

IsNumericText(s) == ParseFloat(s) # Unparsable
IsNaToken(s)     == s \in STR_NA_VALUES

HasDash(f, i)    == \E j \in TenorCols(f) : f.body[i][j] = DASH
HasMissing(f, i) == \E j \in TenorCols(f) : f.body[i][j] = DASH \/ IsNaToken(f.body[i][j])

\* The tenor columns of f, ascending.
TenorSeq(f) ==
    SelectIdx([j \in 1..Len(Header(f)) |-> j \in TenorCols(f)], 1, Len(Header(f)))

\* C1: in every matrix load_jgb_csv returns, no row comes from a data row
\* that holds "-" in a column other than the date column, whatever its
\* other cells hold.
C1_DashRowsAbsent ==
    (Returned /\ load_result.ok) =>
        \A i \in DataRows(file) :
            HasDash(file, i) => i \notin Range(load_result.value.pos)

\* C1's case: a matrix is returned from a file with a row that holds "-" in
\* one tenor column and a number in another.
C1_Witness ==
    /\ Returned /\ load_result.ok
    /\ \E i \in DataRows(file) : \E j, h \in TenorCols(file) :
          file.body[i][j] = DASH /\ IsNumericText(file.body[i][h])

\* Every tenor cell of every data row is numeric text that read_csv keeps.
AllNumeric(f) ==
    \A i \in DataRows(f) : \A j \in TenorCols(f) :
        IsNumericText(f.body[i][j]) /\ ~IsNaToken(f.body[i][j])

WellFormed(f) == Len(f.body) >= 2 /\ HasOneDateCol(f) /\ AllNumeric(f)

\* The key read_csv and set_index give data row i.
DateKey(f, i) ==
    IF IsNaToken(f.body[i][DateCol(f)]) THEN NaN ELSE Str(f.body[i][DateCol(f)])

BadCells(f) ==
    {<<i, j>> \in DataRows(f) \X TenorCols(f) :
        ~IsNumericText(f.body[i][j]) /\ f.body[i][j] # DASH}

IsFormatError(r) == ~r.ok /\ r \in {TooFewRows, AmbiguousDate, NotNumeric}

\* C3 as stated: a tenor cell that is neither numeric nor "-" (an empty cell
\* and "NA" included) makes the whole load fail with a FormatError.
C3_Original ==
    (Returned /\ HasOneDateCol(file) /\ BadCells(file) # {}) =>
        IsFormatError(load_result)

\* C3, amended: in a file whose header names one date column, a tenor cell
\* that is neither numeric, nor "-", nor a text read_csv reads as missing
\* (an empty cell, "NA", ...) makes the whole load fail with the ValueError
\* of the conversion; its row is never dropped silently.
C3_Amended ==
    (Returned /\ HasOneDateCol(file)
        /\ \E c \in BadCells(file) : ~IsNaToken(file.body[c[1]][c[2]])) =>
        load_result = NotNumeric

\* C3's case: two data rows, one with a malformed cell, the other with "-".
C3_Witness ==
    /\ Returned /\ HasOneDateCol(file) /\ Len(file.body) = 3
    /\ \E j \in TenorCols(file) : file.body[2][j] = C_abc
    /\ HasDash(file, 3)
    /\ load_result = NotNumeric

\* C4: a returned matrix has at least one row and only finite cells; a
\* failed load returns no matrix.
C4_FiniteMatrix ==
    Returned =>
        IF load_result.ok
        THEN Len(load_result.value.rows) >= 1 /\ AllFinite(load_result.value)
        ELSE "value" \notin DOMAIN load_result

\* C5: compute_pca raises for every k outside 1..(number of columns) and
\* returns no score table then.
C5_RejectsOutOfRange ==
    (Returned /\ (n_components < 1 \/ n_components > Len(matrix.columns))) =>
        ~pca_result.ok /\ "value" \notin DOMAIN pca_result

\* C6 as stated: whenever the promoted header holds neither label, the load
\* fails with KeyError.
C6_Original ==
    (Returned /\ Len(file.body) >= 1 /\ RawDateCols(file) = {}) =>
        load_result = NoDateColumn

\* C6, amended: whenever the file has at least one data row after the
\* promoted header and that header holds neither "基準日" nor "date", the
\* load fails with KeyError, whatever the placeholder line names.
C6_Amended ==
    (Returned /\ Len(file.body) >= 2 /\ RawDateCols(file) = {}) =>
        load_result = NoDateColumn

\* C6's case: the placeholder line names a column "date", the promoted
\* header of a file with data rows names no date column.
C6_Witness ==
    /\ Returned /\ Len(file.body) >= 2 /\ RawDateCols(file) = {}
    /\ DATE \in Range(file.placeholder)
    /\ load_result = NoDateColumn

\* Every tenor cell is numeric, "-" or a text read as missing: the
\* conversion goes through.
Convertible(f) ==
    \A i \in DataRows(f) : \A j \in TenorCols(f) :
        \/ IsNumericText(f.body[i][j])
        \/ f.body[i][j] = DASH
        \/ IsNaToken(f.body[i][j])

\* C7: when every data row holds a missing value, so that cleaning removes
\* every row, the load fails with the ValueError of line 56 and returns no
\* matrix.
C7_EmptyResultRaises ==
    (Returned /\ Len(file.body) >= 2 /\ HasOneDateCol(file) /\ Convertible(file)
        /\ \A i \in DataRows(file) : HasMissing(file, i)) =>
        load_result = EmptyResult /\ "value" \notin DOMAIN load_result

\* C7's case: two data rows, each with "-" in some tenor column and one of
\* them with a number in another.
C7_Witness ==
    /\ Returned /\ Len(file.body) = 3 /\ HasOneDateCol(file) /\ Convertible(file)
    /\ HasDash(file, 2) /\ HasDash(file, 3)
    /\ \E j \in TenorCols(file) : IsNumericText(file.body[2][j])
    /\ load_result = EmptyResult

\* The error kind of the specification each exception stands for.
ErrorKind(e) ==
    CASE e \in {TooFewRows, AmbiguousDate, NotNumeric} -> "FormatError"
      [] e = NoDateColumn -> "KeyMissingError"
      [] e = EmptyResult  -> "EmptyResultError"
      [] e = FitRejected  -> "InvalidParameterError"

Failures == {TooFewRows, NoDateColumn, AmbiguousDate, NotNumeric, EmptyResult, FitRejected}

\* C8: a failure reaches the caller as an exception whose class no failure
\* of another error kind has.
C8_DistinctKinds ==
    (Returned /\ ~load_result.ok) =>
        \A e \in Failures :
            ErrorKind(e) # ErrorKind(load_result) => e.kind # load_result.kind

\* C9: a score table compute_pca returns has the columns Level, Slope,
\* Curvature for k = 3 and PC1..PCk for any other k, and one row of k scores
\* per input row, under the input's index.
C9_Labels ==
    (Returned /\ pca_result.ok) =>
        LET t == pca_result.value.pc_df
            k == n_components
        IN  /\ Len(t.columns) = k
            /\ k = 3 => t.columns = <<"Level", "Slope", "Curvature">>
            /\ k # 3 => \A i \in 1..k : t.columns[i] = "PC" \o ToString(i)
            /\ t.index = matrix.index
            /\ Len(t.rows) = Len(matrix.rows)
            /\ \A i \in 1..Len(t.rows) : Len(t.rows[i]) = k

\* C9's case: three components of a matrix whose rows have different dates.
C9_Witness ==
    /\ Returned /\ pca_result.ok /\ n_components = 3
    /\ pca_result.value.pc_df.columns[2] = "Slope"
    /\ Cardinality(Range(matrix.index)) > 1

IsPrefix(s, t) == Len(s) <= Len(t) /\ s = SubSeq(t, 1, Len(s))

StageOrder == <<"file-check", "load", "decompose", "report">>

FileCheckFailed == "file-check" \in Range(stages) /\ ~file_exists
LoadFailed      == load_result # None /\ ~load_result.ok
DecomposeFailed == pca_result # None /\ ~pca_result.ok
AllSucceeded ==
    /\ file_exists
    /\ load_result # None /\ load_result.ok
    /\ pca_result # None /\ pca_result.ok

\* The lines a successful run prints before it plots: one ratio per
\* component, in component order, then the total.
ReportLines ==
    LET vr == pca_result.value.pca.explained_variance_ratio_
    IN  [i \in 1..(n_components + 1) |->
            IF i <= n_components
            THEN [line |-> "ratio", i |-> i, vr |-> [t |-> "ratio", comp |-> i]]
            ELSE [line |-> "total", i |-> n_components, vr |-> vr]]

\* C10: main starts its stages in the order file-check, load, decompose,
\* report; a failed file-check, load or decompose ends the process with
\* code 1 before a later stage starts, nothing printed and nothing plotted;
\* only a run in which all three succeed prints, and it prints the ratios
\* in component order and then the total before it plots and ends with
\* code 0.
C10_Pipeline ==
    /\ IsPrefix(stages, StageOrder)
    /\ FileCheckFailed =>
          exit_code = Exited(1) /\ stages = <<"file-check">> /\ stdout = <<>> /\ ~plotted
    /\ LoadFailed =>
          exit_code = Exited(1) /\ stages = <<"file-check", "load">> /\ stdout = <<>> /\ ~plotted
    /\ DecomposeFailed =>
          /\ exit_code = Exited(1) /\ stages = <<"file-check", "load", "decompose">>
          /\ stdout = <<>> /\ ~plotted
    /\ (stdout # <<>> \/ plotted \/ exit_code = Exited(0)) =>
          AllSucceeded /\ IsPrefix(SubSeq(stdout, 1, Min(Len(stdout), n_components + 1)),
                                   ReportLines)
    /\ plotted => IsPrefix(ReportLines, stdout)
    /\ exit_code = Exited(0) => plotted /\ stages = StageOrder

\* C10's case: a run that printed two ratios and the total, plotted and
\* ended with code 0.
C10_Witness ==
    /\ exit_code = Exited(0) /\ plotted /\ n_components = 2
    /\ Len(stdout) >= 3 /\ stdout[3].line = "total"

====
